---------------------------- MODULE Spec2Model ----------------------------
(***************************************************************************)
(* MTB spring rate calculator (app.py, logic.py, components.py,            *)
(* constants.py).                                                          *)
(*                                                                         *)
(* The Streamlit script app.py is re-run from top to bottom after every    *)
(* widget change.  The session (the widget values) is the variable inp,    *)
(* what the last run of the script rendered is the variable out, and the   *)
(* last call of a function of logic.py / components.py is the variable     *)
(* call.                                                                   *)
(*                                                                         *)
(* Numbers.  The program computes with Python floats.  The model computes  *)
(* with decimal fixed-point integers, every product and quotient rounded   *)
(* to the nearest unit of its scale:                                       *)
(*     masses (widgets)            0.01 kg                                 *)
(*     travel, stroke              0.1 mm                                  *)
(*     target sag                  0.1 %                                   *)
(*     leverage ratio (widgets)    0.0001                                  *)
(*     progression                 0.0001 %                                *)
(*     system_kg                   0.0001 kg                               *)
(*     rear_load_kg, rear_load_lbs 0.000001 kg / lb                        *)
(*     effective_lr                0.0000001                               *)
(*     raw_rate, sag percentages   0.0001 lbs/in, 0.0001 %                 *)
(*     preload turns               0.1 turn                                *)
(* Spring rates that the program holds as int are plain integers.          *)
(***************************************************************************)
EXTENDS Integers, Sequences, FiniteSets, TLC

VARIABLES inp, out, call

vars == <<inp, out, call>>

---------------------------------------------------------------------------
(* Arithmetic helpers: Python's float operators on the fixed-point scale.  *)

Abs(x) == IF x < 0 THEN -x ELSE x

Sgn(x) == IF x < 0 THEN -1 ELSE IF x > 0 THEN 1 ELSE 0

\* One step of MulQR: from <<q, r>> for b \div base to <<q, r>> for b,
\* d being the last digit of b in that base.
MulQRStep(h, a, d, c, base) ==
    <<h[1] * base + ((h[2] * base + a * d) \div c), (h[2] * base + a * d) % c>>

\* <<q, r>> with a * b = q * c + r and 0 <= r < c, for 0 <= a < c, b >= 0,
\* computed digit by digit of b so that no intermediate value leaves 32 bits
\* (c * base <= 2^30).
RECURSIVE MulQR(_, _, _, _)
MulQR(a, b, c, base) ==
    IF b = 0 THEN <<0, 0>>
    ELSE MulQRStep(MulQR(a, b \div base, c, base), a, b % base, c, base)

\* <<q, r>> or <<q1, 0, q2, r>> with a * b = (q1 + q2) * c + r and
\* 0 <= r < c, for a, b >= 0 and 0 < c < 2^29.
MulDivQR(a, b, c) ==
    IF b = 0 \/ a <= 2147483647 \div b
    THEN <<(a * b) \div c, (a * b) % c>>
    ELSE <<(a \div c) * b, 0>> \o MulQR(a % c, b, c, 1073741824 \div c)

\* The quotient rounded to the nearest integer, halves upward.
NearestQR(qr, c) ==
    IF Len(qr) = 2
    THEN IF 2 * qr[2] >= c THEN qr[1] + 1 ELSE qr[1]
    ELSE IF 2 * qr[4] >= c THEN qr[1] + qr[3] + 1 ELSE qr[1] + qr[3]

\* a * b / c rounded to the nearest integer (halves away from zero), c # 0.
MulDiv(a, b, c) ==
    Sgn(a) * Sgn(b) * Sgn(c) * NearestQR(MulDivQR(Abs(a), Abs(b), Abs(c)), Abs(c))

\* Python round() of q + r/d for 0 <= r < d: halves to the even neighbour.
HalfEven(q, r, d) ==
    IF 2 * r > d THEN q + 1
    ELSE IF 2 * r < d THEN q
    ELSE IF q % 2 = 0 THEN q ELSE q + 1

\* Python round(n / d): nearest integer, halves to the even neighbour; d > 0.
PyRound(n, d) == Sgn(n) * HalfEven(Abs(n) \div d, Abs(n) % d, d)

\* Python int(n / d): truncation toward zero; d > 0.
PyInt(n, d) == Sgn(n) * (Abs(n) \div d)

\* f"{x:.1f}" of a value on the 0.0001 scale: the tenths that are printed.
Fmt1(x4) == PyRound(x4, 1000)

---------------------------------------------------------------------------
(* Constants of app.py (constants.py holds the same values).               *)

\* KG_TO_LB = 2.20462, in units of 0.00001
\* LB_TO_KG = 0.453592, in units of 0.000001
LB_TO_KG == 453592

KG_TO_LB == 220462

\* IN_TO_MM = 25.4, in units of 0.1; MM_TO_IN = 1/25.4 is division by it
IN_TO_MM == 254

\* PROGRESSIVE_CORRECTION_FACTOR = 0.97, in units of 0.01
PROGRESSIVE_CORRECTION_FACTOR == 97

CATEGORY_DATA ==
    [c \in {"Downcountry", "Trail", "All-Mountain", "Enduro",
            "Long Travel Enduro", "Enduro (Race focus)", "Downhill (DH)"} |->
       CASE c = "Downcountry" ->
              [travel |-> 1150, stroke |-> 450, base_sag |-> 280, progression |-> 15,
               lr_start |-> 28200, bike_mass_def_kg |-> 1200, bias |-> 60]
         [] c = "Trail" ->
              [travel |-> 1300, stroke |-> 500, base_sag |-> 300, progression |-> 19,
               lr_start |-> 29000, bike_mass_def_kg |-> 1350, bias |-> 63]
         [] c = "All-Mountain" ->
              [travel |-> 1450, stroke |-> 550, base_sag |-> 310, progression |-> 21,
               lr_start |-> 29200, bike_mass_def_kg |-> 1450, bias |-> 65]
         [] c = "Enduro" ->
              [travel |-> 1600, stroke |-> 600, base_sag |-> 330, progression |-> 23,
               lr_start |-> 30200, bike_mass_def_kg |-> 1510, bias |-> 67]
         [] c = "Long Travel Enduro" ->
              [travel |-> 1750, stroke |-> 650, base_sag |-> 340, progression |-> 27,
               lr_start |-> 31600, bike_mass_def_kg |-> 1650, bias |-> 69]
         [] c = "Enduro (Race focus)" ->
              [travel |-> 1650, stroke |-> 625, base_sag |-> 320, progression |-> 26,
               lr_start |-> 31300, bike_mass_def_kg |-> 1580, bias |-> 68]
         [] c = "Downhill (DH)" ->
              [travel |-> 2000, stroke |-> 725, base_sag |-> 350, progression |-> 28,
               lr_start |-> 32800, bike_mass_def_kg |-> 1750, bias |-> 72]]

\* COUPLING_COEFFS, in units of 0.01
COUPLING_COEFFS ==
    [c \in DOMAIN CATEGORY_DATA |->
       CASE c = "Downcountry" -> 80
         [] c = "Trail" -> 75
         [] c = "All-Mountain" -> 70
         [] c = "Enduro" -> 72
         [] c = "Long Travel Enduro" -> 90
         [] c = "Enduro (Race focus)" -> 78
         [] c = "Downhill (DH)" -> 95]

---------------------------------------------------------------------------
(* Section 7 of app.py: the calculation, as functions of the session i.    *)

\* defaults = CATEGORY_DATA[category]
defaults(i) == CATEGORY_DATA[i.category_select]

\* raw_lr_end = raw_lr_start * (1 - (raw_prog/100)), without a database bike
raw_lr_end(i) == MulDiv(defaults(i).lr_start, 100 - defaults(i).progression, 100)

\* lr_end: the widget, or lr_start * (1 - (prog_pct/100))
lr_end(i) ==
    IF i.k_input_mode = "Start & Progression %"
    THEN MulDiv(i.lr_start, 100 - i.prog_pct, 100)
    ELSE i.lr_end

\* prog_pct handed to analyze_spring_compatibility
prog_pct(i) ==
    IF i.adv_kinematics
    THEN IF i.k_input_mode = "Start & Progression %"
         THEN i.prog_pct * 10000
         ELSE IF i.lr_start > 0
              THEN MulDiv(i.lr_start - i.lr_end, 1000000, i.lr_start)
              ELSE 0
    ELSE defaults(i).progression * 10000

\* effective_lr with the else branch taken whatever use_advanced_calc is.
effective_lr_linear(i) ==
    IF i.stroke_mm > 0
    THEN MulDiv(i.travel_mm, 10000000, i.stroke_mm)
    ELSE 10000000

\* effective_lr; the division travel_mm / stroke_mm is guarded by stroke_mm > 0
effective_lr(i) ==
    IF i.adv_kinematics
    THEN LET total_drop == i.lr_start - lr_end(i)
         IN  1000 * i.lr_start - total_drop * i.target_sag
    ELSE IF i.stroke_mm > 0
         THEN MulDiv(i.travel_mm, 10000000, i.stroke_mm)
         ELSE 10000000

coupling(i) == COUPLING_COEFFS[i.category_select]

\* eff_rider_kg + bike_kg
system_kg(i) == (100 * i.rider_kg + i.gear_kg * coupling(i)) + 100 * i.bike_weight_man

\* rear_load_kg = (system_kg * (final_bias_calc / 100)) - unsprung_kg
rear_load_kg(i) == system_kg(i) * i.rear_bias_slider - 10000 * i.unsprung_kg

\* rear_load_lbs = rear_load_kg * KG_TO_LB
rear_load_lbs(i) == MulDiv(rear_load_kg(i), KG_TO_LB, 100000)

\* sag_mm = stroke_mm * (target_sag / 100), in units of 0.0001 mm
sag_mm(i) == IF i.stroke_mm > 0 THEN i.stroke_mm * i.target_sag ELSE 0

\* The load at the shock with the leverage ratio left out.
shock_load_without_lr(i) == rear_load_lbs(i)

\* rear_load_lbs * effective_lr, in units of 0.000001 lb
shock_load(i) == MulDiv(rear_load_lbs(i), effective_lr(i), 10000000)

\* raw_rate with the stroke tested for being non-zero instead of positive.
raw_rate_stroke_nonzero(i) ==
    IF i.stroke_mm # 0
    THEN MulDiv(MulDiv(rear_load_lbs(i), effective_lr(i), 10000000),
                10 * IN_TO_MM, i.stroke_mm * i.target_sag)
    ELSE 0

\* raw_rate = (rear_load_lbs * effective_lr) / (sag_mm * MM_TO_IN) if
\* stroke_mm > 0, else 0; then the correction of the progressive spring
SpringCorrection(raw, spring_type) ==
    IF spring_type = "Progressive Coil"
    THEN MulDiv(raw, PROGRESSIVE_CORRECTION_FACTOR, 100)
    ELSE raw

raw_rate(i) ==
    SpringCorrection(IF i.stroke_mm > 0
                     THEN MulDiv(shock_load(i), 10 * IN_TO_MM, sag_mm(i))
                     ELSE 0,
                     i.spring_type_sel)

\* int(round(raw / step) * step) for a raw rate on the 0.0001 scale
RoundToStep(raw, step) == PyRound(raw, step * 10000) * step

\* base_step = 25
base_step == 25

\* center_rate with the quotient truncated instead of rounded.
center_rate_truncated(raw) == PyInt(raw, base_step * 10000) * base_step

\* center_rate = int(round(raw_rate / base_step) * base_step)
center_rate(raw) == RoundToStep(raw, base_step)

\* (rear_load_lbs * effective_lr) / (rate * MM_TO_IN) / stroke_mm * 100,
\* in units of 0.0001 %, load_lr being rear_load_lbs * effective_lr;
\* rate and stroke_mm are not zero
SagPct(load_lr, rate, stroke_mm) ==
    LET r_sag_mm == MulDiv(load_lr, IN_TO_MM, 1000 * rate)
    IN  MulDiv(r_sag_mm, 1000, stroke_mm)

\* the Fit column of the table of available springs (without the emoji)
FitTag(rate, center, r_sag_pct) ==
    IF rate = center THEN "Recommended"
    ELSE IF r_sag_pct > 350000 THEN "Too Soft"
    ELSE IF r_sag_pct < 250000 THEN "Too Stiff"
    ELSE "Alternative"

\* The loop over five rates, two steps to either side of the centre.
OptionRatesTwoSteps(center) ==
    <<center - 2 * base_step, center - base_step, center,
      center + base_step, center + 2 * base_step>>

\* for rate in [center_rate - base_step, center_rate, center_rate + base_step]
OptionRates(center) == <<center - base_step, center, center + base_step>>

\* one row of the table of available springs
OptionRow(rate, center, r_sag_pct) ==
    [rate |-> rate, sag |-> Fmt1(r_sag_pct), fit |-> FitTag(rate, center, r_sag_pct)]

RECURSIVE OptionRows(_, _, _, _)
OptionRows(load_lr, stroke_mm, rates, center) ==
    IF rates = <<>> THEN <<>>
    ELSE (IF Head(rates) <= 0 THEN <<>>
          ELSE <<OptionRow(Head(rates), center,
                           SagPct(load_lr, Head(rates), stroke_mm))>>)
         \o OptionRows(load_lr, stroke_mm, Tail(rates), center)

\* options: one row per rate of the loop, those with rate <= 0 skipped
options(load_lr, stroke_mm, center) ==
    OptionRows(load_lr, stroke_mm, OptionRates(center), center)

---------------------------------------------------------------------------
(* The Sprindex branch of the results section.                             *)

\* A range with the two numbers of "low-high" taken in the wrong order.
RangeReversed(r_str, low, high) == [r_str |-> r_str, low |-> high, high |-> low]

\* One range "low-high" of SPRINDEX_DATA with what
\* map(int, r_str.split("-")) makes of it.
Range(r_str, low, high) == [r_str |-> r_str, low |-> low, high |-> high]

SPRINDEX_DATA ==
    [f \in {"XC/Trail (55mm)", "Enduro (65mm)", "DH (75mm)"} |->
       CASE f = "XC/Trail (55mm)" ->
              [max_stroke |-> 55,
               ranges |-> <<Range("380-430", 380, 430), Range("430-500", 430, 500),
                            Range("490-560", 490, 560), Range("550-610", 550, 610),
                            Range("610-690", 610, 690), Range("650-760", 650, 760)>>]
         [] f = "Enduro (65mm)" ->
              [max_stroke |-> 65,
               ranges |-> <<Range("340-380", 340, 380), Range("390-430", 390, 430),
                            Range("450-500", 450, 500), Range("500-550", 500, 550),
                            Range("540-610", 540, 610), Range("610-700", 610, 700)>>]
         [] f = "DH (75mm)" ->
              [max_stroke |-> 75,
               ranges |-> <<Range("290-320", 290, 320), Range("340-370", 340, 370),
                            Range("400-440", 400, 440), Range("450-490", 450, 490),
                            Range("510-570", 510, 570), Range("570-630", 570, 630)>>]]

\* The choice of the family with the strokes at max_stroke left to the next
\* family.
family_below_max(stroke_mm) ==
    IF stroke_mm < 550 THEN "XC/Trail (55mm)"
    ELSE IF stroke_mm < 650 THEN "Enduro (65mm)"
    ELSE IF stroke_mm < 750 THEN "DH (75mm)"
    ELSE ""

\* family: chosen by stroke_mm; "" stands for None
family(stroke_mm) ==
    IF stroke_mm <= 550 THEN "XC/Trail (55mm)"
    ELSE IF stroke_mm <= 650 THEN "Enduro (65mm)"
    ELSE IF stroke_mm <= 750 THEN "DH (75mm)"
    ELSE ""

\* The loop over the ranges from index k on: it stops at the first range that
\* holds raw, and otherwise remembers the last gap that raw lies in.
RECURSIVE ScanRanges(_, _, _, _)
ScanRanges(ranges, raw, k, gap) ==
    IF k > Len(ranges)
    THEN [found_match |-> FALSE, r_str |-> "", gap_neighbors |-> gap]
    ELSE IF ranges[k].low * 10000 <= raw /\ raw <= ranges[k].high * 10000
    THEN [found_match |-> TRUE, r_str |-> ranges[k].r_str, gap_neighbors |-> gap]
    ELSE ScanRanges(ranges, raw, k + 1,
                    IF k > 1 /\ ranges[k-1].high * 10000 < raw
                             /\ raw < ranges[k].low * 10000
                    THEN <<[r_str |-> ranges[k-1].r_str, limit |-> ranges[k-1].high],
                           [r_str |-> ranges[k].r_str, limit |-> ranges[k].low]>>
                    ELSE gap)

\* The gap branch: the radio of the gap options returns the stored choice
\* while it is shown with the options of the run before (prev_gap), and its
\* first option when it is new.
GapChoice(gap_neighbors, gap_choice, prev_gap) ==
    IF gap_neighbors = prev_gap THEN gap_choice ELSE "Option A"

\* The pick that takes the lower range whatever the radio returns.
GapPickLower(gap_neighbors, choice) == gap_neighbors[1]

GapPick(gap_neighbors, choice) ==
    IF choice = "Option A" THEN gap_neighbors[1] ELSE gap_neighbors[2]

GapResult(fam, gap_neighbors, choice, pick, load_lr, stroke_mm) ==
    [family |-> fam, hardware |-> "gap", r_str |-> "",
     gap |-> gap_neighbors, gap_choice |-> choice,
     chosen_sag |-> <<Fmt1(SagPct(load_lr, pick.limit, stroke_mm))>>,
     feel |-> IF choice = "Option A" THEN <<"Plush">> ELSE <<"Support">>,
     final_rate_for_tuning |-> pick.limit]

\* The branch with the rate of a perfect fit left at the step of 25 of the
\* rate computed before the branch.
SprindexFamilyStep25(fam, scan, raw, stroke_mm, load_lr, choice) ==
    IF scan.found_match
    THEN [family |-> fam, hardware |-> "perfect", r_str |-> scan.r_str,
          gap |-> <<>>, gap_choice |-> "Option A", chosen_sag |-> <<>>, feel |-> <<>>,
          final_rate_for_tuning |-> RoundToStep(raw, 25)]
    ELSE IF scan.gap_neighbors # <<>>
    THEN GapResult(fam, scan.gap_neighbors, choice,
                   GapPick(scan.gap_neighbors, choice), load_lr, stroke_mm)
    ELSE [family |-> fam, hardware |-> "outside", r_str |-> "",
          gap |-> <<>>, gap_choice |-> "Option A", chosen_sag |-> <<>>, feel |-> <<>>,
          final_rate_for_tuning |-> PyInt(raw, 10000)]

\* What the branch renders for the outcome scan of the loop over the ranges.
SprindexFamily(fam, scan, raw, stroke_mm, load_lr, choice) ==
    IF scan.found_match
    THEN [family |-> fam, hardware |-> "perfect", r_str |-> scan.r_str,
          gap |-> <<>>, gap_choice |-> "Option A", chosen_sag |-> <<>>, feel |-> <<>>,
          final_rate_for_tuning |-> RoundToStep(raw, 5)]
    ELSE IF scan.gap_neighbors # <<>>
    THEN GapResult(fam, scan.gap_neighbors, choice,
                   GapPick(scan.gap_neighbors, choice), load_lr, stroke_mm)
    ELSE [family |-> fam, hardware |-> "outside", r_str |-> "",
          gap |-> <<>>, gap_choice |-> "Option A", chosen_sag |-> <<>>, feel |-> <<>>,
          final_rate_for_tuning |-> PyInt(raw, 10000)]

SprindexScan(fam, scan, raw, stroke_mm, load_lr, gap_choice, prev_gap) ==
    SprindexFamily(fam, scan, raw, stroke_mm, load_lr,
                   GapChoice(scan.gap_neighbors, gap_choice, prev_gap))

\* What the Sprindex branch renders and the final_rate_for_tuning it leaves.
Sprindex(raw, stroke_mm, load_lr, gap_choice, prev_gap) ==
    IF family(stroke_mm) = ""
    THEN [family |-> "", hardware |-> "exceeds", r_str |-> "", gap |-> <<>>,
          gap_choice |-> "Option A", chosen_sag |-> <<>>, feel |-> <<>>,
          final_rate_for_tuning |-> PyInt(raw, 10000)]
    ELSE SprindexScan(family(stroke_mm),
                      ScanRanges(SPRINDEX_DATA[family(stroke_mm)].ranges, raw, 1, <<>>),
                      raw, stroke_mm, load_lr, gap_choice, prev_gap)

\* What is rendered of the Sprindex branch when it is not taken.
NoSprindex ==
    [family |-> "", hardware |-> "none", r_str |-> "", gap |-> <<>>,
     gap_choice |-> "Option A", chosen_sag |-> <<>>, feel |-> <<>>, final_rate_for_tuning |-> 0]

---------------------------------------------------------------------------
(* The preload table of app.py.                                            *)

\* for turns in [0, 0.5, 1.0, 1.5, 2.0, 2.5, 3.0], in units of 0.1 turn
AppTurns == <<0, 5, 10, 15, 20, 25, 30>>

\* sag_pct_eff of one row, in units of 0.0001 %; rate and stroke are not zero.
\* preload_mm = turns * 1.0; sag_in_eff is in units of 0.000001 in.
PreloadSagPct(load_lr, rate, stroke_mm, turns) ==
    LET sag_in_eff == MulDiv(load_lr, 1, rate) - MulDiv(turns, 1000000, IN_TO_MM)
    IN  MulDiv(sag_in_eff, IN_TO_MM, stroke_mm)

\* The status decided by the turns alone, whatever the sag.
PreloadStatusByTurns(turns, sag_pct_eff) ==
    IF turns < 10 THEN "< 1.0 Turn"
    ELSE IF turns >= 30 THEN "Excessive"
    ELSE "OK"

\* status of one row of app.py's preload table (without the emoji)
PreloadStatus(turns, sag_pct_eff) ==
    IF turns < 10 THEN "< 1.0 Turn"
    ELSE IF turns >= 30 THEN "Excessive"
    ELSE IF sag_pct_eff < 250000 THEN "Too Stiff"
    ELSE "OK"

\* one row of app.py's preload table
PreloadRow(turns, sag_pct_eff) ==
    [turns |-> turns, sag |-> Fmt1(sag_pct_eff),
     status |-> PreloadStatus(turns, sag_pct_eff)]

RECURSIVE PreloadRows(_, _, _, _)
PreloadRows(load_lr, rate, stroke_mm, turnsLeft) ==
    IF turnsLeft = <<>> THEN <<>>
    ELSE <<PreloadRow(Head(turnsLeft),
                      PreloadSagPct(load_lr, rate, stroke_mm, Head(turnsLeft)))>>
         \o PreloadRows(load_lr, rate, stroke_mm, Tail(turnsLeft))

\* preload_data of app.py
preload_data(load_lr, final_rate, stroke_mm) ==
    PreloadRows(load_lr, final_rate, stroke_mm, AppTurns)

---------------------------------------------------------------------------
(* analyze_spring_compatibility of app.py; progression_pct in 0.0001 %,    *)
(* the statuses without their emoji.                                       *)

AnalyzeApp(progression_pct, has_hbo) ==
    IF progression_pct > 250000
    THEN [Linear |-> [status |-> "Optimal",
                      msg |-> "Matches frame kinematics perfectly."],
          Progressive |-> [status |-> "Avoid",
                           msg |-> "Risk of harsh 'Wall Effect' at bottom-out."]]
    ELSE IF 120000 <= progression_pct /\ progression_pct <= 250000
    THEN [Linear |-> [status |-> "Compatible",
                      msg |-> IF has_hbo
                              THEN "Use for a consistent, planted, and plush coil feel. (HBO handles the bottom-out)."
                              ELSE "Use for a consistent, planted, and plush coil feel."],
          Progressive |-> [status |-> "Compatible",
                           msg |-> "Use for more 'pop' and extra bottom-out resistance (Air-shock feel)."]]
    ELSE [Linear |-> [status |-> "Caution",
                      msg |-> "High risk of harsh bottom-outs unless shock has strong HBO."],
          Progressive |-> [status |-> "Optimal",
                           msg |-> "Essential to compensate for the frame's lack of ramp-up."]]

---------------------------------------------------------------------------
(* One run of the script: what it renders for the session i, the run       *)
(* before having shown the gap options prev_gap.                           *)

\* "Calculated_Spring_Rate": int(raw_rate) if raw_rate else 0
Calculated_Spring_Rate(raw) == IF raw # 0 THEN PyInt(raw, 10000) ELSE 0

\* The results section once the branch of the spring type has run: hw is
\* what the Sprindex branch rendered, center and opts the table of available
\* springs, final the final_rate_for_tuning read by the preload table.
ResultsShown(i, raw, load_lr, hw, center, opts, final) ==
    [section      |-> "Results",
     metric       |-> <<PyInt(raw, 10000)>>,
     generic      |-> <<PyInt(raw - MulDiv(raw, 8, 100), 10000),
                        PyInt(raw + MulDiv(raw, 8, 100), 10000)>>,
     sprindex     |-> hw,
     center       |-> center,
     options      |-> opts,
     caption      |-> <<final>>,
     \* rear_load_lbs * effective_lr / final_rate_for_tuning raises for 0
     exception    |-> IF final = 0 THEN "ZeroDivisionError" ELSE "none",
     preload_data |-> IF final = 0 THEN <<>>
                      ELSE preload_data(load_lr, final, i.stroke_mm),
     log          |-> IF final = 0 THEN <<>>
                      ELSE <<Calculated_Spring_Rate(raw)>>]

ResultsSprindex(i, raw, load_lr, hw) ==
    ResultsShown(i, raw, load_lr, hw, <<>>, <<>>, hw.final_rate_for_tuning)

ResultsCoil(i, raw, load_lr, center) ==
    ResultsShown(i, raw, load_lr, NoSprindex, <<center>>,
                 options(load_lr, i.stroke_mm, center), center)

\* The results section, rendered when raw_rate > 0.
Results(i, raw, load_lr, prev_gap) ==
    IF i.spring_type_sel = "Sprindex"
    THEN ResultsSprindex(i, raw, load_lr,
                         Sprindex(raw, i.stroke_mm, load_lr, i.gap_choice, prev_gap))
    ELSE ResultsCoil(i, raw, load_lr, center_rate(raw))

\* st.error("Ensure Stroke and Travel are > 0."), rendered otherwise.
CannotCalculate(raw) ==
    [section |-> "Error", metric |-> <<>>, generic |-> <<>>,
     sprindex |-> NoSprindex, center |-> <<>>, options |-> <<>>,
     caption |-> <<>>, exception |-> "none", preload_data |-> <<>>,
     log |-> <<Calculated_Spring_Rate(raw)>>]

\* The values computed before the results section, and the section.
Rendering(i, raw, prev_gap) ==
    [analysis      |-> AnalyzeApp(prog_pct(i), i.has_hbo),
     effective_lr  |-> effective_lr(i),
     system_kg     |-> system_kg(i),
     rear_load_kg  |-> rear_load_kg(i),
     rear_load_lbs |-> rear_load_lbs(i),
     raw_rate      |-> raw]
    @@ (IF raw > 0
        THEN Results(i, raw, shock_load(i), prev_gap)
        ELSE CannotCalculate(raw))

Calculate(i, prev_gap) == Rendering(i, raw_rate(i), prev_gap)

---------------------------------------------------------------------------
(* logic.py and components.py: the functions of the modular variant.       *)

\* analyze_spring_compatibility of logic.py with 25 % counted as above the band.
AnalyzeLogicFrom25(progression_pct, has_hbo) ==
    IF progression_pct >= 250000
    THEN [Linear |-> [status |-> "OK Optimal",
                      msg |-> "Matches frame kinematics."],
          Progressive |-> [status |-> "Caution Avoid",
                           msg |-> "Risk of harsh Wall Effect."]]
    ELSE IF 120000 <= progression_pct /\ progression_pct <= 250000
    THEN [Linear |-> [status |-> "OK Compatible",
                      msg |-> IF has_hbo
                              THEN "Use for a plush coil feel. (HBO handles bottom-out)."
                              ELSE "Use for a plush coil feel."],
          Progressive |-> [status |-> "OK Compatible",
                           msg |-> "Use for more pop and bottom-out resistance."]]
    ELSE [Linear |-> [status |-> "Caution",
                      msg |-> "High risk of bottom-out without strong HBO."],
          Progressive |-> [status |-> "OK Optimal",
                           msg |-> "Essential to compensate for lack of ramp-up."]]

\* analyze_spring_compatibility of logic.py; progression_pct in 0.0001 %
AnalyzeLogic(progression_pct, has_hbo) ==
    IF progression_pct > 250000
    THEN [Linear |-> [status |-> "OK Optimal",
                      msg |-> "Matches frame kinematics."],
          Progressive |-> [status |-> "Caution Avoid",
                           msg |-> "Risk of harsh Wall Effect."]]
    ELSE IF 120000 <= progression_pct /\ progression_pct <= 250000
    THEN [Linear |-> [status |-> "OK Compatible",
                      msg |-> IF has_hbo
                              THEN "Use for a plush coil feel. (HBO handles bottom-out)."
                              ELSE "Use for a plush coil feel."],
          Progressive |-> [status |-> "OK Compatible",
                           msg |-> "Use for more pop and bottom-out resistance."]]
    ELSE [Linear |-> [status |-> "Caution",
                      msg |-> "High risk of bottom-out without strong HBO."],
          Progressive |-> [status |-> "OK Optimal",
                           msg |-> "Essential to compensate for lack of ramp-up."]]

\* if spring_type_sel == "Progressive Spring": raw_rate *= PROGRESSIVE_CORRECTION_FACTOR
LogicCorrection(raw, spring_type) ==
    IF spring_type = "Progressive Spring"
    THEN MulDiv(raw, PROGRESSIVE_CORRECTION_FACTOR, 100)
    ELSE raw

\* calculate_spring_rate of logic.py: the rate it returns, or the exception
\* of (rear_load_lbs * effective_lr) / (stroke_mm * (target_sag / 100) * MM_TO_IN)
calculate_spring_rate(rear_load_lbs_, effective_lr_, stroke_mm, target_sag, spring_type) ==
    IF stroke_mm > 0
    THEN IF stroke_mm * target_sag = 0
         THEN [raised |-> "ZeroDivisionError", raw_rate |-> 0]
         ELSE [raised |-> "none",
               raw_rate |-> LogicCorrection(
                   MulDiv(MulDiv(rear_load_lbs_, effective_lr_, 10000000),
                          10 * IN_TO_MM, stroke_mm * target_sag),
                   spring_type)]
    ELSE [raised |-> "none", raw_rate |-> LogicCorrection(0, spring_type)]

\* for turns in [0.5, 1.0, 1.5, 2.0, 2.5, 3.0], in units of 0.1 turn
TableTurns == <<5, 10, 15, 20, 25, 30>>

\* one row of fine_tuning_table
TuningRow(turns, sag_pct) ==
    [turns |-> turns, sag |-> Fmt1(sag_pct),
     status |-> IF 10 <= turns /\ turns < 30 THEN "OK" ELSE "Caution"]

RECURSIVE TuningRows(_, _, _, _)
TuningRows(load_lr, final_rate, stroke_mm, turnsLeft) ==
    IF turnsLeft = <<>> THEN <<>>
    ELSE <<TuningRow(Head(turnsLeft),
                     PreloadSagPct(load_lr, final_rate, stroke_mm, Head(turnsLeft)))>>
         \o TuningRows(load_lr, final_rate, stroke_mm, Tail(turnsLeft))

\* fine_tuning_table of components.py: the rows it displays, or the exception
\* of its divisions by final_rate and by stroke_mm * MM_TO_IN
fine_tuning_table(rear_load_lbs_, effective_lr_, final_rate, stroke_mm) ==
    IF final_rate = 0 \/ stroke_mm = 0
    THEN [raised |-> "ZeroDivisionError", preload_data |-> <<>>]
    ELSE [raised |-> "none",
          preload_data |-> TuningRows(MulDiv(rear_load_lbs_, effective_lr_, 10000000),
                                      final_rate, stroke_mm, TableTurns)]

---------------------------------------------------------------------------
(* The session: the widgets of app.py and the values the user gives them.  *)
(* The bike database file is not part of the sources: load_bike_database   *)
(* returns the empty frame, is_db_bike is False, and the masses and        *)
(* lengths are entered in kg and mm.                                       *)

RiderValues    == {4000, 6800}
GearValues     == {0, 400}
BikeValues     == {700, 1510}
UnsprungValues == {427, 2500}
Categories     == {"Enduro", "Downhill (DH)"}
BiasValues     == {55, 75}
TravelValues   == {0, 10, 1600}
StrokeValues   == {600, 1000}
LrStartValues  == {15000, 30200}
LrEndValues    == {15000, 40000}
ProgValues     == {-10, 23, 60}
SagValues      == {200, 330}
SpringTypes    == {"Standard Steel (Linear)", "Lightweight Steel/Ti", "Sprindex",
                   "Progressive Coil"}

\* The values the widgets take when they are first rendered for category c.
WidgetDefaults(c) ==
    [rider_kg         |-> 6800,
     gear_kg          |-> 400,
     bike_weight_man  |-> CATEGORY_DATA[c].bike_mass_def_kg,
     unsprung_kg      |-> 427,
     category_select  |-> c,
     rear_bias_slider |-> CATEGORY_DATA[c].bias,
     travel_mm        |-> CATEGORY_DATA[c].travel,
     stroke_mm        |-> CATEGORY_DATA[c].stroke,
     adv_kinematics   |-> FALSE,
     lr_start         |-> CATEGORY_DATA[c].lr_start,
     k_input_mode     |-> "Start & End Rates",
     lr_end           |-> MulDiv(CATEGORY_DATA[c].lr_start,
                                 100 - CATEGORY_DATA[c].progression, 100),
     prog_pct         |-> CATEGORY_DATA[c].progression,
     has_hbo          |-> FALSE,
     spring_type_sel  |-> "Standard Steel (Linear)",
     target_sag       |-> CATEGORY_DATA[c].base_sag,
     gap_choice       |-> "Option A"]

\* A widget that a run does not render loses its value and starts from its
\* default when it is rendered again: the kinematics inputs under the
\* "Advanced Kinematics" checkbox and the input of the mode not chosen.
Rendered(i) ==
    LET d == WidgetDefaults(i.category_select)
    IN  IF ~i.adv_kinematics
        THEN [i EXCEPT !.lr_start = d.lr_start, !.k_input_mode = d.k_input_mode,
                       !.lr_end = d.lr_end, !.prog_pct = d.prog_pct]
        ELSE IF i.k_input_mode = "Start & Progression %"
             THEN [i EXCEPT !.lr_end = d.lr_end]
             ELSE [i EXCEPT !.prog_pct = d.prog_pct]

\* A run of the script after the widget change that gives session j.  The
\* session keeps the choice that the gap radio returned in this run.
Settle(k) ==
    /\ out' = Calculate(k, out.sprindex.gap)
    /\ inp' = [k EXCEPT !.gap_choice = out'.sprindex.gap_choice]
    /\ UNCHANGED call

Rerun(j) == Settle(Rendered(j))

NoCall == [fn |-> "none"]

Init ==
    /\ inp = WidgetDefaults("Enduro")
    /\ out = Calculate(inp, <<>>)
    /\ call = NoCall

SetRiderWeight == \E v \in RiderValues : Rerun([inp EXCEPT !.rider_kg = v])

SetGearWeight == \E v \in GearValues : Rerun([inp EXCEPT !.gear_kg = v])

SetBikeWeight == \E v \in BikeValues : Rerun([inp EXCEPT !.bike_weight_man = v])

SetUnsprung == \E v \in UnsprungValues : Rerun([inp EXCEPT !.unsprung_kg = v])

\* update_bias_from_category, the on_change callback of the category selectbox
update_bias_from_category(ss) ==
    [ss EXCEPT !.rear_bias_slider = CATEGORY_DATA[ss.category_select].bias]

\* Selecting another category runs the callback; the inputs without a key whose
\* default comes from the category start again from the new defaults.
SelectCategory ==
    \E c \in Categories :
       /\ c # inp.category_select
       /\ LET d == WidgetDefaults(c)
          IN  Rerun(update_bias_from_category(
                      [inp EXCEPT !.category_select = c,
                                  !.travel_mm = d.travel_mm,
                                  !.stroke_mm = d.stroke_mm,
                                  !.lr_start = d.lr_start,
                                  !.lr_end = d.lr_end,
                                  !.prog_pct = d.prog_pct,
                                  !.target_sag = d.target_sag]))

SetRearBias == \E v \in BiasValues : Rerun([inp EXCEPT !.rear_bias_slider = v])

\* the Reset button: rear_bias_slider = cat_def_bias, then st.rerun()
ResetBias ==
    Rerun([inp EXCEPT !.rear_bias_slider = CATEGORY_DATA[inp.category_select].bias])

SetTravel == \E v \in TravelValues : Rerun([inp EXCEPT !.travel_mm = v])

SetStroke == \E v \in StrokeValues : Rerun([inp EXCEPT !.stroke_mm = v])

ToggleAdvanced == Rerun([inp EXCEPT !.adv_kinematics = ~inp.adv_kinematics])

SetLrStart ==
    /\ inp.adv_kinematics
    /\ \E v \in LrStartValues : Rerun([inp EXCEPT !.lr_start = v])

SetInputMode ==
    /\ inp.adv_kinematics
    /\ \E m \in {"Start & End Rates", "Start & Progression %"} :
          Rerun([inp EXCEPT !.k_input_mode = m])

SetLrEnd ==
    /\ inp.adv_kinematics
    /\ inp.k_input_mode = "Start & End Rates"
    /\ \E v \in LrEndValues : Rerun([inp EXCEPT !.lr_end = v])

SetProgression ==
    /\ inp.adv_kinematics
    /\ inp.k_input_mode = "Start & Progression %"
    /\ \E v \in ProgValues : Rerun([inp EXCEPT !.prog_pct = v])

ToggleHBO == Rerun([inp EXCEPT !.has_hbo = ~inp.has_hbo])

SelectSpring == \E t \in SpringTypes : Rerun([inp EXCEPT !.spring_type_sel = t])

SetTargetSag == \E v \in SagValues : Rerun([inp EXCEPT !.target_sag = v])

ChooseGapOption ==
    /\ out.sprindex.gap # <<>>
    /\ \E g \in {"Option A", "Option B"} : Rerun([inp EXCEPT !.gap_choice = g])

\* Sessions in which the user edits the rider profile, the chassis data and
\* the setup preferences.
Next ==
    \/ SetRiderWeight
    \/ SetGearWeight
    \/ SetBikeWeight
    \/ SetUnsprung
    \/ SelectCategory
    \/ SetRearBias
    \/ ResetBias
    \/ SelectSpring
    \/ SetTargetSag
    \/ ChooseGapOption

Spec == Init /\ [][Next]_vars

\* Sessions in which the user edits the shock and kinematics inputs and the
\* setup preferences.
NextKin ==
    \/ SetTravel
    \/ SetStroke
    \/ ToggleAdvanced
    \/ SetLrStart
    \/ SetInputMode
    \/ SetLrEnd
    \/ SetProgression
    \/ ToggleHBO
    \/ SelectSpring
    \/ SetTargetSag
    \/ ChooseGapOption

SpecKin == Init /\ [][NextKin]_vars

---------------------------------------------------------------------------
(* The calculation and the functions of logic.py and components.py applied *)
(* to argument records: inp is the record, out what the calculation of     *)
(* app.py makes of it, call the last function call.                        *)

ArgStrokes   == {-600, 0, 600}
ArgTravels   == {0, 1600}
ArgProgs     == {10, 12, 23, 25, 26}
ArgSags      == {200, 330}
ArgSprings   == SpringTypes \cup {"Progressive Spring"}
ArgRates     == {0, 425}

NotRun == [section |-> "not run"]

InitCalc ==
    /\ \E st \in ArgStrokes, tr \in ArgTravels, sp \in ArgSprings, hbo \in BOOLEAN,
          adv \in BOOLEAN, pp \in ArgProgs, sag \in ArgSags :
          /\ ~adv => pp = 23
          /\ inp = [WidgetDefaults("Enduro") EXCEPT
                       !.stroke_mm = st, !.travel_mm = tr, !.spring_type_sel = sp,
                       !.has_hbo = hbo, !.adv_kinematics = adv, !.target_sag = sag,
                       !.k_input_mode = "Start & Progression %", !.prog_pct = pp]
    /\ out = NotRun
    /\ call = NoCall

\* section 7 of app.py on the record
RunCalculation ==
    /\ out' = Calculate(inp, <<>>)
    /\ UNCHANGED <<inp, call>>

CallCalculateSpringRate ==
    /\ call' = [fn |-> "calculate_spring_rate",
                spring_type_sel |-> inp.spring_type_sel,
                returned |-> calculate_spring_rate(rear_load_lbs(inp), effective_lr(inp),
                                                   inp.stroke_mm, inp.target_sag,
                                                   inp.spring_type_sel)]
    /\ UNCHANGED <<inp, out>>

CallAnalyze ==
    /\ call' = [fn |-> "analyze_spring_compatibility",
                returned |-> AnalyzeLogic(prog_pct(inp), inp.has_hbo)]
    /\ UNCHANGED <<inp, out>>

CallFineTuningTable ==
    \E final_rate \in ArgRates :
       /\ call' = [fn |-> "fine_tuning_table",
                   rear_load_lbs |-> rear_load_lbs(inp),
                   effective_lr |-> effective_lr(inp),
                   final_rate |-> final_rate,
                   stroke_mm |-> inp.stroke_mm,
                   returned |-> fine_tuning_table(rear_load_lbs(inp), effective_lr(inp),
                                                  final_rate, inp.stroke_mm)]
       /\ UNCHANGED <<inp, out>>

NextCalc ==
    \/ RunCalculation
    \/ CallCalculateSpringRate
    \/ CallAnalyze
    \/ CallFineTuningTable

SpecCalc == InitCalc /\ [][NextCalc]_vars

---------------------------------------------------------------------------
(* The Sprindex branch applied to argument records: inp holds the raw rate, *)
(* the stroke, the load at the shock and the stored choice of the gap       *)
(* radio, out what the branch renders for them.                             *)

\* raw rates in units of 0.0001 lbs/in: below, at the edges of, inside,
\* between and above the ranges of the three families
LookupRates ==
    {9999, 2800000, 2900000, 3300000, 3400000, 3800000, 3850000, 3900000,
     4300000, 4324000, 4400000, 4465000, 4650000, 4950000, 5000000, 5450000,
     5700000, 6300000, 6300001, 7000000, 7600000, 7650000}

\* strokes in units of 0.1 mm, on both sides of the limits of the families
LookupStrokes == {500, 550, 551, 650, 651, 750, 751, 1000}

\* rear_load_lbs * effective_lr of the default session, for the sag of a gap option
LookupLoad == shock_load(WidgetDefaults("Enduro"))

InitLookup ==
    /\ \E r \in LookupRates, st \in LookupStrokes :
          inp = [raw_rate |-> r, stroke_mm |-> st, load_lr |-> LookupLoad,
                 gap_choice |-> "Option A"]
    /\ out = NotRun
    /\ call = NoCall

\* if active_spring_type == "Sprindex": ... with the radio at its stored choice
Settled(i, prev_gap) ==
    /\ out' = [section |-> "Sprindex"]
              @@ Sprindex(i.raw_rate, i.stroke_mm, i.load_lr, i.gap_choice, prev_gap)
    /\ inp' = [i EXCEPT !.gap_choice = out'.gap_choice]
    /\ UNCHANGED call

LookUp ==
    /\ out = NotRun
    /\ Settled(inp, <<>>)

PickGapOption ==
    /\ out # NotRun
    /\ out.gap # <<>>
    /\ \E g \in {"Option A", "Option B"} :
          Settled([inp EXCEPT !.gap_choice = g], out.gap)

NextLookup ==
    \/ LookUp
    \/ PickGapOption

SpecLookup == InitLookup /\ [][NextLookup]_vars

---------------------------------------------------------------------------
(* The unit conversions of the inputs: a weight entered in lbs is           *)
(* multiplied by LB_TO_KG and a weight in kg shown in lbs by KG_TO_LB; a    *)
(* length in mm is multiplied by MM_TO_IN = 1/25.4 to be shown in inches    *)
(* and a length entered in inches by IN_TO_MM.  inp holds the mass (in      *)
(* 0.000001 lb) and the length (in 0.000001 mm) that are converted, out     *)
(* the values after the conversions made so far: kg in 0.000001 kg, inches  *)
(* in 0.00000001 in.                                                        *)

\* m * LB_TO_KG
lb_to_kg(m) == MulDiv(m, LB_TO_KG, 1000000)

\* m * KG_TO_LB
kg_to_lb(m) == MulDiv(m, KG_TO_LB, 100000)

\* x * MM_TO_IN, MM_TO_IN being 1/25.4
mm_to_in(x) == MulDiv(x, 1000, IN_TO_MM)

\* x * IN_TO_MM
in_to_mm(x) == MulDiv(x, IN_TO_MM, 1000)

\* 0, 10, 100, 154.324, 165, 220.462, 300 and 1000 lb
UnitMasses == {0, 10000000, 100000000, 154324000, 165000000, 220462000,
               300000000, 1000000000}

\* 0, 25.4, 50, 57.5, 60, 65, 160 and 250 mm
UnitLengths == {0, 25400000, 50000000, 57500000, 60000000, 65000000,
                160000000, 250000000}

InitUnits ==
    /\ \E m \in UnitMasses, x \in UnitLengths : inp = [mass |-> m, length |-> x]
    /\ out = [section |-> "units", mass_unit |-> "lb", mass |-> inp.mass,
              mass_trips |-> 0, length_unit |-> "mm", length |-> inp.length,
              length_trips |-> 0]
    /\ call = NoCall

\* A mass in lb is converted to kg.
ToKg ==
    /\ out.mass_unit = "lb" /\ out.mass_trips = 0
    /\ out' = [out EXCEPT !.mass_unit = "kg", !.mass = lb_to_kg(out.mass)]
    /\ UNCHANGED <<inp, call>>

\* A mass in kg is converted to lb.
ToLb ==
    /\ out.mass_unit = "kg"
    /\ out' = [out EXCEPT !.mass_unit = "lb", !.mass = kg_to_lb(out.mass),
                          !.mass_trips = 1]
    /\ UNCHANGED <<inp, call>>

\* A length in mm is converted to inches.
ToIn ==
    /\ out.length_unit = "mm" /\ out.length_trips = 0
    /\ out' = [out EXCEPT !.length_unit = "in", !.length = mm_to_in(out.length)]
    /\ UNCHANGED <<inp, call>>

\* A length in inches is converted to mm.
ToMm ==
    /\ out.length_unit = "in"
    /\ out' = [out EXCEPT !.length_unit = "mm", !.length = in_to_mm(out.length),
                          !.length_trips = 1]
    /\ UNCHANGED <<inp, call>>

NextUnits == ToKg \/ ToLb \/ ToIn \/ ToMm

SpecUnits == InitUnits /\ [][NextUnits]_vars

---------------------------------------------------------------------------
(* The callbacks of the bike selector and of the category selectbox.  inp   *)
(* is st.session_state (the keys category_select, rear_bias_slider and      *)
(* bike_selector, 0 standing for None), out holds what load_bike_database   *)
(* returns (the Travel_mm of the rows in units of 0.1 mm, the model of a    *)
(* row being its index; <<>> is the empty frame), call the last callback    *)
(* with the session it found.                                               *)

\* list(CATEGORY_DATA.keys())
cat_keys == <<"Downcountry", "Trail", "All-Mountain", "Enduro",
              "Long Travel Enduro", "Enduro (Race focus)", "Downhill (DH)">>

\* new_idx with the brackets closed at their upper ends.
new_idx_inclusive(t) ==
    IF t <= 1250 THEN 0
    ELSE IF t <= 1400 THEN 1
    ELSE IF t <= 1550 THEN 2
    ELSE IF t <= 1700 THEN 3
    ELSE IF t <= 1850 THEN 4
    ELSE 6

\* new_idx of app.py; the index of cat_name in cat_keys in components.py
new_idx(t) ==
    IF t < 1250 THEN 0
    ELSE IF t < 1400 THEN 1
    ELSE IF t < 1550 THEN 2
    ELSE IF t < 1700 THEN 3
    ELSE IF t < 1850 THEN 4
    ELSE 6

\* The assignments both versions of update_category_from_bike make for the
\* travel t of the selected row.
CategoryFromTravel(ss, t) ==
    [ss EXCEPT !.category_select = cat_keys[new_idx(t) + 1],
               !.rear_bias_slider = CATEGORY_DATA[cat_keys[new_idx(t) + 1]].bias]

\* update_category_from_bike of app.py; it is the on_change of a selectbox
\* that is rendered for a database that is not empty only.
app_update_category_from_bike(ss, bike_db) ==
    IF ss.bike_selector # 0
    THEN CategoryFromTravel(ss, bike_db[ss.bike_selector])
    ELSE ss

\* update_category_from_bike of components.py
update_category_from_bike(ss, bike_db) ==
    IF ss.bike_selector # 0 /\ bike_db # <<>>
    THEN CategoryFromTravel(ss, bike_db[ss.bike_selector])
    ELSE ss

\* The rows of a database: travels at, just below and away from the limits
\* of the brackets.
BikeRows == <<1000, 1249, 1250, 1399, 1400, 1549, 1550, 1699, 1700, 1849, 1850, 2000>>

BikeSelections == 0..Len(BikeRows)

InitBike ==
    /\ inp = [category_select |-> "Enduro",
              rear_bias_slider |-> CATEGORY_DATA["Enduro"].bias,
              bike_selector |-> 0]
    /\ out \in {[section |-> "database", bike_db |-> db] : db \in {<<>>, BikeRows}}
    /\ call = NoCall

Called(fn, ss) == [fn |-> fn, session |-> ss, selected_model |-> ss.bike_selector]

\* The category selectbox is changed: its on_change runs with the new value.
SelectCategoryBox ==
    \E c \in DOMAIN CATEGORY_DATA :
       /\ c # inp.category_select
       /\ inp' = update_bias_from_category([inp EXCEPT !.category_select = c])
       /\ call' = Called("update_bias_from_category", inp)
       /\ UNCHANGED out

\* The bike selector of app.py is changed (to a model or back to None).
SelectBikeModel ==
    /\ out.bike_db # <<>>
    /\ \E m \in 0..Len(out.bike_db) :
          /\ m # inp.bike_selector
          /\ inp' = app_update_category_from_bike([inp EXCEPT !.bike_selector = m],
                                                  out.bike_db)
          /\ call' = Called("update_category_from_bike",
                            [inp EXCEPT !.bike_selector = m])
    /\ UNCHANGED out

\* update_category_from_bike of components.py is called for a session whose
\* bike_selector is m, whatever the database is.
CallUpdateCategoryFromBike ==
    \E m \in BikeSelections :
       /\ inp' = update_category_from_bike([inp EXCEPT !.bike_selector = m],
                                           out.bike_db)
       /\ call' = Called("update_category_from_bike",
                         [inp EXCEPT !.bike_selector = m])
       /\ UNCHANGED out

\* The slider of the rear bias is moved; it has no callback.
MoveBiasSlider ==
    \E v \in BiasValues :
       /\ v # inp.rear_bias_slider
       /\ inp' = [inp EXCEPT !.rear_bias_slider = v]
       /\ call' = NoCall
       /\ UNCHANGED out

NextBike ==
    \/ SelectCategoryBox
    \/ SelectBikeModel
    \/ CallUpdateCategoryFromBike
    \/ MoveBiasSlider

SpecBike == InitBike /\ [][NextBike]_vars

---------------------------------------------------------------------------
(* The rear static load.                                                   *)

\* C1: for every input record the rear static load is the sprung mass times
\* the bias fraction, rear_load_kg = (rider_kg + gear_kg * coupling + bike_kg
\* - unsprung_kg) * (bias / 100), and rear_load_lbs = rear_load_kg * 2.20462:
\* the bias is never applied to the unsprung mass.
C1_RearLoadIsSprungMassTimesBias ==
    /\ out.rear_load_kg =
          ((100 * inp.rider_kg + inp.gear_kg * COUPLING_COEFFS[inp.category_select]
            + 100 * inp.bike_weight_man) - 100 * inp.unsprung_kg) * inp.rear_bias_slider
    /\ out.rear_load_lbs = MulDiv(out.rear_load_kg, KG_TO_LB, 100000)

\* The session of Scenario A after a run: what app.py does with it is that
\* the whole unsprung mass is taken off the rear share of the system mass.
C1_ScenarioLoad ==
    /\ inp.rider_kg = 6800 /\ inp.gear_kg = 400 /\ inp.bike_weight_man = 1510
    /\ inp.unsprung_kg = 427 /\ inp.category_select = "Enduro"
    /\ inp.rear_bias_slider = 67
    /\ out.rear_load_kg = 53336600

---------------------------------------------------------------------------
(* Scenario A.                                                             *)

\* rider 68 kg, gear 4 kg, bike 15.1 kg, unsprung 4.27 kg, Enduro at bias
\* 67 %, stroke 60 mm, travel 160 mm, lrStart 3.02, progression 23 %, target
\* sag 33 %, advanced kinematics, standard linear spring
ScenarioA ==
    /\ inp.rider_kg = 6800 /\ inp.gear_kg = 400 /\ inp.bike_weight_man = 1510
    /\ inp.unsprung_kg = 427 /\ inp.category_select = "Enduro"
    /\ inp.rear_bias_slider = 67 /\ inp.stroke_mm = 600 /\ inp.travel_mm = 1600
    /\ inp.adv_kinematics /\ inp.k_input_mode = "Start & Progression %"
    /\ inp.lr_start = 30200 /\ inp.prog_pct = 23 /\ inp.target_sag = 330
    /\ inp.spring_type_sel = "Standard Steel (Linear)"

Within(x, centre, tol) == centre - tol <= x /\ x <= centre + tol

---------------------------------------------------------------------------
(* The progressive correction.                                             *)

Linear(i) == [i EXCEPT !.spring_type_sel = "Standard Steel (Linear)"]

\* C3: for identical other inputs, the raw rate computed with the progressive
\* option that the spring selector offers ("Progressive Coil") is 0.97 times
\* the raw rate computed for the standard linear spring, in the calculation of
\* app.py and in calculate_spring_rate of logic.py.
C3_ProgressiveIsCorrected ==
    /\ (out.section # "not run" /\ inp.spring_type_sel = "Progressive Coil") =>
          out.raw_rate = MulDiv(raw_rate(Linear(inp)), 97, 100)
    /\ (/\ call.fn = "calculate_spring_rate"
        /\ call.spring_type_sel = "Progressive Coil") =>
          call.returned.raw_rate =
              MulDiv(calculate_spring_rate(rear_load_lbs(inp), effective_lr(inp),
                                           inp.stroke_mm, inp.target_sag,
                                           "Standard Steel (Linear)").raw_rate,
                     97, 100)

\* Both variants have computed a positive rate for "Progressive Coil":
\* app.py the corrected one, calculate_spring_rate the uncorrected one.
C3_BothCalculated ==
    /\ inp.spring_type_sel = "Progressive Coil"
    /\ out.section = "Results"
    /\ out.raw_rate = MulDiv(raw_rate(Linear(inp)), 97, 100)
    /\ call.fn = "calculate_spring_rate"
    /\ call.returned.raw_rate = raw_rate(Linear(inp))

---------------------------------------------------------------------------
(* A stroke of zero or less.                                               *)

---------------------------------------------------------------------------
(* Rates of zero.                                                          *)

\* C5: every spring rate presented as a result (the calculated rate, the
\* recommended rate, the rate named above the preload table and the
\* Calculated_Spring_Rate of the configuration log) is strictly positive, and
\* a computed rate of 0 or less, or a rounded rate of 0, gives the
\* cannot-calculate state instead of results.
C5_PresentedRatesPositive ==
    /\ out.section = "Results" =>
          /\ \A k \in 1..Len(out.metric) : out.metric[k] > 0
          /\ \A k \in 1..Len(out.center) : out.center[k] > 0
          /\ \A k \in 1..Len(out.caption) : out.caption[k] > 0
          /\ \A k \in 1..Len(out.log) : out.log[k] > 0
    /\ out.raw_rate <= 0 => out.section = "Error"
    /\ (out.raw_rate > 0 /\ out.raw_rate < 10000) => out.section = "Error"
    /\ (/\ inp.spring_type_sel # "Sprindex"
        /\ PyRound(out.raw_rate, 250000) = 0) => out.section = "Error"

\* The results section names a 0 lbs spring as the recommended one.
C5_ZeroRatePresented ==
    /\ out.section = "Results"
    /\ out.raw_rate > 0
    /\ out.center = <<0>>
    /\ out.caption = <<0>>

\* C6: for every combination of inputs inside the ranges of the widgets the
\* calculation finishes with a result and raises no exception: no division by
\* a rate of zero in the table of available springs or the preload table.
C6_NeverRaises ==
    /\ out.exception = "none"
    /\ out.section = "Results" => Len(out.preload_data) > 0

\* The run stopped in the preload table, dividing by final_rate_for_tuning = 0.
C6_PreloadRaised ==
    /\ out.section = "Results"
    /\ out.exception = "ZeroDivisionError"
    /\ out.preload_data = <<>>

---------------------------------------------------------------------------
(* The recommended rate.                                                   *)

\* C7: for every positive raw rate and every spring type other than Sprindex
\* the recommended rate is an integer multiple of 25 and differs from the raw
\* rate by at most 12.5 lbs/in; it is the rate the preload table is built for.
C7_RecommendedIsNearestStep ==
    (out.section = "Results" /\ inp.spring_type_sel # "Sprindex") =>
        /\ out.raw_rate > 0
        /\ Len(out.center) = 1
        /\ out.center[1] % 25 = 0
        /\ Abs(10000 * out.center[1] - out.raw_rate) <= 125000
        /\ out.caption = out.center

\* A raw rate in the upper half of its step of 25 has been rounded up.
C7_RoundedUp ==
    /\ out.section = "Results" /\ inp.spring_type_sel # "Sprindex"
    /\ out.center[1] > 0
    /\ 10000 * out.center[1] > out.raw_rate + 50000

---------------------------------------------------------------------------
(* The table of available springs.                                         *)

IsPositive(x) == x > 0

RowRates(rows) == [k \in 1..Len(rows) |-> rows[k].rate]

\* ((rear_load_lbs * effective_lr / rate) / (stroke_mm * mmToIn)) * 100 from
\* the values the run has computed, in units of 0.0001 %
SagOfRate(rate) ==
    MulDiv(MulDiv(MulDiv(out.rear_load_lbs, out.effective_lr, 10000000), 1, rate),
           IN_TO_MM, inp.stroke_mm)

---------------------------------------------------------------------------
(* The preload tables.                                                     *)

RowTurns(rows) == [k \in 1..Len(rows) |-> rows[k].turns]

\* The statuses that flag a row ("Caution", or a warning sign in app.py).
IsCaution(status) == status \in {"Caution", "< 1.0 Turn", "Excessive", "Too Stiff"}

\* The sag left by a spring of the given rate under the load after the given
\* turns of preload at 1.0 mm of compression per turn, in units of 0.0001 %.
SagAfterPreload(load_lbs, lr, rate, stroke_mm, turns) ==
    MulDiv(MulDiv(MulDiv(load_lbs, lr, 10000000), IN_TO_MM, 1000 * rate)
             - 1000 * turns,
           1000, stroke_mm)

\* A table with one row for each of the turns 0.5 ... 3.0, a row's status
\* being Caution exactly when its turns are below 1.0 or at least 3.0.
TableAsStated(rows) ==
    /\ RowTurns(rows) = <<5, 10, 15, 20, 25, 30>>
    /\ \A k \in 1..Len(rows) :
          IsCaution(rows[k].status) <=> (rows[k].turns < 10 \/ rows[k].turns >= 30)

\* Every row's sag is the one left after its turns at 1.0 mm per turn.
SagsByTurns(rows, load_lbs, lr, rate, stroke_mm) ==
    \A k \in 1..Len(rows) :
       Abs(rows[k].sag
           - Fmt1(SagAfterPreload(load_lbs, lr, rate, stroke_mm, rows[k].turns))) <= 1

\* C9 (as stated): the preload table has exactly one row for each of the turns
\* 0.5, 1.0, 1.5, 2.0, 2.5 and 3.0, and a row's status is Caution exactly when
\* its turns are below 1.0 or at least 3.0 and OK otherwise, independent of the
\* sag, in fine_tuning_table and in the table of app.py.
C9_PreloadTablesAsStated ==
    /\ (call.fn = "fine_tuning_table" /\ call.returned.raised = "none") =>
          TableAsStated(call.returned.preload_data)
    /\ (out.section = "Results" /\ out.exception = "none") =>
          TableAsStated(out.preload_data)

\* C9 (amended): fine_tuning_table has one row for each of the turns 0.5 ...
\* 3.0, Caution exactly for turns below 1.0 or at least 3.0 and OK otherwise;
\* the table of app.py has one row for each of the turns 0, 0.5 ... 3.0, flags
\* turns below 1.0 ("< 1.0 Turn") and of at least 3.0 ("Excessive"), and of
\* the rows between flags those whose sag is below 25 % ("Too Stiff"); in both
\* the sag is computed from 1.0 mm of extra compression per turn.
C9_PreloadTables ==
    /\ (call.fn = "fine_tuning_table" /\ call.returned.raised = "none") =>
          /\ TableAsStated(call.returned.preload_data)
          /\ \A k \in 1..Len(call.returned.preload_data) :
                call.returned.preload_data[k].status \in {"OK", "Caution"}
          /\ SagsByTurns(call.returned.preload_data, call.rear_load_lbs,
                         call.effective_lr, call.final_rate, call.stroke_mm)
    /\ (out.section = "Results" /\ out.exception = "none") =>
          /\ RowTurns(out.preload_data) = <<0, 5, 10, 15, 20, 25, 30>>
          /\ SagsByTurns(out.preload_data, out.rear_load_lbs, out.effective_lr,
                         out.caption[1], inp.stroke_mm)
          /\ \A k \in 1..Len(out.preload_data) :
                out.preload_data[k].status =
                    IF out.preload_data[k].turns < 10 THEN "< 1.0 Turn"
                    ELSE IF out.preload_data[k].turns >= 30 THEN "Excessive"
                    ELSE IF SagAfterPreload(out.rear_load_lbs, out.effective_lr,
                                            out.caption[1], inp.stroke_mm,
                                            out.preload_data[k].turns) < 250000
                         THEN "Too Stiff"
                    ELSE "OK"

\* Both tables are shown, the one of app.py with a row between 1.0 and 3.0
\* turns flagged for its sag.
C9_BothTablesShown ==
    /\ call.fn = "fine_tuning_table" /\ call.returned.raised = "none"
    /\ out.section = "Results" /\ out.exception = "none"
    /\ Len(out.preload_data) = 7
    /\ out.preload_data[3].status = "Too Stiff"

---------------------------------------------------------------------------
(* The spring compatibility analysis.                                      *)

\* The verdict that a status names, whatever sign or prefix it is shown with.
Verdict(status) ==
    CASE status \in {"Optimal", "OK Optimal"} -> "Optimal"
      [] status \in {"Avoid", "Caution Avoid"} -> "Avoid"
      [] status \in {"Compatible", "OK Compatible"} -> "Compatible"
      [] status \in {"Caution"} -> "Caution"
      [] OTHER -> ""

\* The classification of a progression, in units of 0.0001 %: the verdicts
\* for the linear and for the progressive spring.
Classified(progression_pct) ==
    IF progression_pct > 250000 THEN <<"Optimal", "Avoid">>
    ELSE IF progression_pct >= 120000 THEN <<"Compatible", "Compatible">>
    ELSE <<"Caution", "Optimal">>

InBand(progression_pct) == 120000 <= progression_pct /\ progression_pct <= 250000

HboNotes == {" (HBO handles bottom-out).", " (HBO handles the bottom-out)."}

\* analysis is the classification of the progression; against the analysis
\* without HBO it differs by a note appended to the message for the linear
\* spring, and only with HBO inside the band.
AnalysisAsClaimed(analysis, without_hbo, progression_pct, has_hbo) ==
    /\ <<Verdict(analysis.Linear.status), Verdict(analysis.Progressive.status)>>
          = Classified(progression_pct)
    /\ analysis.Linear.msg # "" /\ analysis.Progressive.msg # ""
    /\ analysis.Linear.status = without_hbo.Linear.status
    /\ analysis.Progressive = without_hbo.Progressive
    /\ IF has_hbo /\ InBand(progression_pct)
       THEN \E note \in HboNotes :
               analysis.Linear.msg = without_hbo.Linear.msg \o note
       ELSE analysis.Linear.msg = without_hbo.Linear.msg

\* C10: analyze_spring_compatibility classifies every progression three ways:
\* above 25 % Linear is Optimal and Progressive is Avoid, from 12 % to 25 %
\* inclusive both are Compatible, below 12 % Linear is Caution and Progressive
\* is Optimal; has_hbo changes no status and only extends the message for the
\* linear spring in the 12-25 band; both statuses are never empty.  This holds
\* of the function of logic.py and of the one of app.py.
C10_ThreeWayClassification ==
    /\ call.fn = "analyze_spring_compatibility" =>
          AnalysisAsClaimed(call.returned, AnalyzeLogic(prog_pct(inp), FALSE),
                            prog_pct(inp), inp.has_hbo)
    /\ out.section # "not run" =>
          AnalysisAsClaimed(out.analysis, AnalyzeApp(prog_pct(inp), FALSE),
                            prog_pct(inp), inp.has_hbo)

\* Both functions have classified a progression of exactly 25 % with HBO.
C10_ClassifiedAtBoundary ==
    /\ prog_pct(inp) = 250000 /\ inp.has_hbo
    /\ call.fn = "analyze_spring_compatibility"
    /\ Verdict(call.returned.Linear.status) = "Compatible"
    /\ out.section # "not run"
    /\ Verdict(out.analysis.Progressive.status) = "Compatible"

---------------------------------------------------------------------------
(* The Sprindex catalog and lookup.                                        *)

Families == DOMAIN SPRINDEX_DATA

RangesOf(f) == SPRINDEX_DATA[f].ranges

Holds(range, raw) == range.low * 10000 <= raw /\ raw <= range.high * 10000

\* C11 (as stated): in every Sprindex family each range has low < high and the
\* upper bound of a range is strictly less than the lower bound of the next,
\* so that at most one range contains any given rate.
C11_RangesDisjoint ==
    (out # NotRun /\ out.family # "") =>
       /\ \A f \in Families :
             /\ \A k \in 1..Len(RangesOf(f)) :
                   RangesOf(f)[k].low < RangesOf(f)[k].high
             /\ \A k \in 1..(Len(RangesOf(f)) - 1) :
                   RangesOf(f)[k].high < RangesOf(f)[k+1].low
       /\ \A j, k \in 1..Len(RangesOf(out.family)) :
             (/\ Holds(RangesOf(out.family)[j], inp.raw_rate)
              /\ Holds(RangesOf(out.family)[k], inp.raw_rate)) => j = k

\* C11 (amended): in every Sprindex family each range has low < high and the
\* ranges are ordered, lower and upper bounds both strictly increasing, but
\* consecutive ranges may touch or overlap; a rate that lies in two ranges is
\* reported as a fit of the first of them.
C11_RangesOrdered ==
    /\ \A f \in Families :
          /\ \A k \in 1..Len(RangesOf(f)) : RangesOf(f)[k].low < RangesOf(f)[k].high
          /\ \A k \in 1..(Len(RangesOf(f)) - 1) :
                /\ RangesOf(f)[k].low < RangesOf(f)[k+1].low
                /\ RangesOf(f)[k].high < RangesOf(f)[k+1].high
    /\ (out # NotRun /\ out.hardware = "perfect") =>
          \E k \in 1..Len(RangesOf(out.family)) :
             /\ RangesOf(out.family)[k].r_str = out.r_str
             /\ Holds(RangesOf(out.family)[k], inp.raw_rate)
             /\ \A j \in 1..(k - 1) : ~Holds(RangesOf(out.family)[j], inp.raw_rate)

\* A rate of 495 lbs/in, which lies in "430-500" and in "490-560" of the
\* XC/Trail family, has been looked up and reported as a fit of "430-500".
C11_RateInTwoRanges ==
    /\ out # NotRun /\ out.hardware = "perfect"
    /\ out.family = "XC/Trail (55mm)" /\ out.r_str = "430-500"
    /\ inp.raw_rate = 4950000

\* The ranges of the selected family that contain the raw rate.
Containing == {k \in 1..Len(RangesOf(family(inp.stroke_mm))) :
                  Holds(RangesOf(family(inp.stroke_mm))[k], inp.raw_rate)}

\* C12: whenever some range of the selected family contains the raw rate, the
\* result is a perfect fit on a range that contains the raw rate, and the
\* tuning rate is the raw rate rounded to the nearest multiple of 5 and lies
\* inside the reported range.
C12_PerfectFit ==
    (out # NotRun /\ family(inp.stroke_mm) # "" /\ Containing # {}) =>
        /\ out.hardware = "perfect"
        /\ out.family = family(inp.stroke_mm)
        /\ out.gap = <<>>
        /\ \E k \in Containing :
              /\ RangesOf(out.family)[k].r_str = out.r_str
              /\ RangesOf(out.family)[k].low <= out.final_rate_for_tuning
              /\ out.final_rate_for_tuning <= RangesOf(out.family)[k].high
        /\ out.final_rate_for_tuning % 5 = 0
        /\ Abs(10000 * out.final_rate_for_tuning - inp.raw_rate) <= 25000

\* A rate of 432.4 lbs/in fits "430-500" and is tuned at 430, the edge of the range.
C12_FitRoundedToEdge ==
    /\ out # NotRun /\ out.hardware = "perfect"
    /\ inp.raw_rate = 4324000
    /\ out.r_str = "430-500"
    /\ out.final_rate_for_tuning = 430

\* The ranges k of the selected family with the raw rate strictly between
\* the upper bound of range k and the lower bound of range k + 1.
GapsAround ==
    {k \in 1..(Len(RangesOf(family(inp.stroke_mm))) - 1) :
        /\ RangesOf(family(inp.stroke_mm))[k].high * 10000 < inp.raw_rate
        /\ inp.raw_rate < RangesOf(family(inp.stroke_mm))[k+1].low * 10000}

\* C13: whenever the raw rate lies strictly between the upper bound of one
\* range and the lower bound of the next of the selected family and no range
\* contains it, both neighbouring ranges are offered, the lower one as the
\* plush option and the upper one as the supportive option, and the tuning
\* rate is the boundary of the option chosen: the maximum of the lower range
\* or the minimum of the upper range.
C13_GapOptions ==
    (/\ out # NotRun /\ family(inp.stroke_mm) # ""
     /\ Containing = {} /\ GapsAround # {}) =>
        /\ out.hardware = "gap"
        /\ \E k \in GapsAround :
              /\ out.gap = <<[r_str |-> RangesOf(out.family)[k].r_str,
                              limit |-> RangesOf(out.family)[k].high],
                             [r_str |-> RangesOf(out.family)[k+1].r_str,
                              limit |-> RangesOf(out.family)[k+1].low]>>
              /\ out.gap_choice = "Option A" =>
                    /\ out.final_rate_for_tuning = RangesOf(out.family)[k].high
                    /\ out.feel = <<"Plush">>
              /\ out.gap_choice = "Option B" =>
                    /\ out.final_rate_for_tuning = RangesOf(out.family)[k+1].low
                    /\ out.feel = <<"Support">>
        /\ out.gap_choice \in {"Option A", "Option B"}
        /\ out.gap_choice = inp.gap_choice

\* A rate of 440 lbs/in between "390-430" and "450-500" with the upper option
\* chosen: the tuning rate is 450.
C13_UpperOptionChosen ==
    /\ out # NotRun /\ out.hardware = "gap"
    /\ inp.raw_rate = 4400000 /\ out.family = "Enduro (65mm)"
    /\ out.gap_choice = "Option B"
    /\ out.final_rate_for_tuning = 450

\* The two ranges of "Enduro (65mm)" around the gap from 430 to 450 lbs/in.
EnduroGap430To450 ==
    <<[r_str |-> "390-430", limit |-> 430], [r_str |-> "450-500", limit |-> 450]>>

\* C14 as stated: with the family "Enduro (65mm)" a raw rate of 465 lbs/in is
\* reported as a gap between "390-430" and "450-500" with exactly these two
\* gap options, and not as a perfect fit.
C14_Enduro465_AsStated ==
    (/\ out # NotRun /\ 550 < inp.stroke_mm /\ inp.stroke_mm <= 650
     /\ inp.raw_rate = 4650000) =>
        /\ out.family = "Enduro (65mm)"
        /\ out.hardware = "gap"
        /\ out.gap = EnduroGap430To450

\* C14: with the family "Enduro (65mm)" (strokes over 55 mm up to 65 mm) a
\* raw rate of 465 lbs/in lies inside "450-500": it is a perfect fit on that
\* range with the tuning rate 465 and no gap options.  The gap between
\* "390-430" and "450-500" is the one of the rates strictly between 430 and
\* 450 lbs/in, such as 440, which get exactly these two gap options.
C14_Enduro465 ==
    (out # NotRun /\ 550 < inp.stroke_mm /\ inp.stroke_mm <= 650) =>
        /\ out.family = "Enduro (65mm)"
        /\ inp.raw_rate = 4650000 =>
              /\ out.hardware = "perfect"
              /\ out.r_str = "450-500"
              /\ out.gap = <<>>
              /\ out.final_rate_for_tuning = 465
        /\ inp.raw_rate = 4400000 =>
              /\ out.hardware = "gap"
              /\ out.gap = EnduroGap430To450

\* The lookup of 465 lbs/in for a stroke of 65 mm has run.
C14_Enduro465LookedUp ==
    /\ out # NotRun /\ inp.stroke_mm = 650 /\ inp.raw_rate = 4650000
    /\ out.family = "Enduro (65mm)" /\ out.r_str = "450-500"

\* The lookup has run for a stroke over 75 mm, or for a raw rate below the
\* lowest or above the highest range of the selected family.
NoMatch ==
    /\ out # NotRun
    /\ \/ family(inp.stroke_mm) = ""
       \/ inp.raw_rate < RangesOf(family(inp.stroke_mm))[1].low * 10000
       \/ inp.raw_rate > RangesOf(family(inp.stroke_mm))[
                            Len(RangesOf(family(inp.stroke_mm)))].high * 10000

\* C15: when the raw rate is below the lowest or above the highest range of
\* the selected family, or the stroke exceeds 75 mm, the outcome is no-match:
\* no perfect fit and no gap options are reported, no range of another family
\* is substituted, and no tuning rate is derived from the raw rate (the
\* tuning rate stays 0, the value it has when no lookup is made).
C15_NoMatchAsStated ==
    NoMatch =>
        /\ out.hardware \in {"outside", "exceeds"}
        /\ out.r_str = "" /\ out.gap = <<>>
        /\ out.family = family(inp.stroke_mm)
        /\ out.final_rate_for_tuning = 0

\* A raw rate of 280 lbs/in with a stroke of 75 mm is below "290-320": no
\* range is reported and the tuning rate is 280.
C15_TuningRateOfNoMatch ==
    /\ NoMatch /\ inp.raw_rate = 2800000 /\ inp.stroke_mm = 750
    /\ out.hardware = "outside" /\ out.r_str = "" /\ out.gap = <<>>
    /\ out.final_rate_for_tuning = 280

---------------------------------------------------------------------------
(* The unit conversions there and back.                                     *)

\* a equals b within a relative error of 0.000001 of b.
WithinMillionth(a, b) == Abs(a - b) <= b \div 1000000

\* C16: a mass m >= 0 converted from lb to kg and back to lb
\* (m * LB_TO_KG * KG_TO_LB) is m within a relative error of 0.000001, and a
\* length converted from mm to in and back (MM_TO_IN, then IN_TO_MM) is the
\* original length within the same tolerance.
C16_RoundTripsAsStated ==
    /\ (out.section = "units" /\ out.mass_trips = 1) =>
           WithinMillionth(out.mass, inp.mass)
    /\ (out.section = "units" /\ out.length_trips = 1) =>
           WithinMillionth(out.length, inp.length)

\* 100 lb converted to kg and back: 99.9998 lb, 0.0002 lb short where
\* 0.0001 lb is the tolerance.
C16_MassRoundTripShort ==
    /\ out.section = "units" /\ out.mass_trips = 1
    /\ inp.mass = 100000000
    /\ out.mass < 99999900 /\ out.mass > 99999700

---------------------------------------------------------------------------
(* The effective leverage ratio.                                            *)

\* lrStart - (lrStart - lrEnd) * (targetSag / 100) in units of 0.0000001, the
\* leverage ratios in 0.0001 and the sag in 0.1 %.
LrAtSag(lrStart, lrEnd, targetSag) == 1000 * lrStart - (lrStart - lrEnd) * targetSag

\* C17: in advanced mode the effective leverage ratio is
\* lrStart - (lrStart - lrEnd) * (targetSag / 100), with
\* lrEnd = lrStart * (1 - progression / 100) when the progression is entered
\* (lrEnd held to 0.0001, so to targetSag units of 0.0000001) and the entered
\* end rate otherwise; in non-advanced mode with a positive stroke it is
\* exactly travel / stroke, whatever progression, lrStart and target sag are.
C17_EffectiveLeverageRatio ==
    /\ (inp.adv_kinematics /\ inp.k_input_mode = "Start & Progression %") =>
           Abs(out.effective_lr
               - (1000 * inp.lr_start
                  - MulDiv(inp.lr_start * inp.prog_pct, inp.target_sag, 100)))
             <= inp.target_sag
    /\ (inp.adv_kinematics /\ inp.k_input_mode = "Start & End Rates") =>
           out.effective_lr = LrAtSag(inp.lr_start, inp.lr_end, inp.target_sag)
    /\ (~inp.adv_kinematics /\ inp.stroke_mm > 0) =>
           out.effective_lr = MulDiv(inp.travel_mm, 10000000, inp.stroke_mm)

\* Advanced mode with lrStart 1.5, a progression of 60 % and a target sag of
\* 20 %: lrEnd is 0.6 and the effective leverage ratio 1.32.
C17_AdvancedByProgression ==
    /\ inp.adv_kinematics /\ inp.k_input_mode = "Start & Progression %"
    /\ inp.lr_start = 15000 /\ inp.prog_pct = 60 /\ inp.target_sag = 200
    /\ out.effective_lr = 13200000

---------------------------------------------------------------------------
(* The callbacks.                                                           *)

\* The rear bias of the session ss is the default of its category.
InSync(ss) == ss.rear_bias_slider = CATEGORY_DATA[ss.category_select].bias

\* The category of the travel t (in 0.1 mm) by the brackets of the claim.
BracketCategory(t) ==
    IF t < 1250 THEN "Downcountry"
    ELSE IF t < 1400 THEN "Trail"
    ELSE IF t < 1550 THEN "All-Mountain"
    ELSE IF t < 1700 THEN "Enduro"
    ELSE IF t < 1850 THEN "Long Travel Enduro"
    ELSE "Downhill (DH)"

=============================================================================
